---- MODULE Spec2Model ----
(***************************************************************************)
(* Region subscription manager of the log-backup subsystem:                *)
(* components/backup-stream/src/subscription_manager.rs.                   *)
(*                                                                         *)
(* The operator loop (region_operator_loop) consumes ObserveOp commands    *)
(* from one mailbox and is the only writer of the subscription tracker;    *)
(* the scan pool (scan_executor_loop) runs one task per ScanCmd, each with *)
(* its own retry loop (exec_by_with_retry).                                *)
(***************************************************************************)
EXTENDS Integers, Sequences, FiniteSets, TLC

VARIABLES
    mailbox,      \* Receiver<ObserveOp>: the commands sent and not yet received
    opBudget,     \* commands the callers may still send
    sendersOpen,  \* the callers still hold a Sender of the mailbox
    loop_pc,      \* where region_operator_loop stands
    cur,          \* the command the loop received last
    before,       \* the record the tracker held for cur's region when cur was received
    curHandle,    \* the ObserveHandle the handler in progress created
    subs,         \* SubscriptionTracer: region id -> record
    nextHandle,   \* ObserveHandle::new() hands out fresh ids
    scanq,        \* channel of the scan pool: ScanCmds sent and not yet received
    tasks,        \* scan tasks spawned by scan_executor_loop, not yet ended
    scans,        \* outstanding Work tokens of the loop's wait group
    handleScans,  \* outstanding Work tokens of the wait group of the handle start() returns
    timers,       \* retry notifications sleeping in a spawned timer task
    fatal,        \* Task::FatalError sent to the scheduler, in order
    failBudget,   \* failures the collaborators may still inject
    cbCount,      \* callback invocations made for the command received last
    lastRes,      \* what the callback of the command received last was given
    lastGlobal,   \* the global checkpoint delivered last (0: none yet)
    log,          \* the commands the loop received and the answers it got, when recorded
    call,         \* a call of one of the free functions: its argument and its result
    pool          \* ScanPoolHandle: still held or dropped, and the commands dropped with it

vars == <<mailbox, opBudget, sendersOpen, loop_pc, cur, before, curHandle, subs, nextHandle,
          scanq, tasks, scans, handleScans, timers, fatal, failBudget, cbCount,
          lastRes, lastGlobal, log, call, pool>>

----------------------------------------------------------------------------
(* Bounds of the model *)

MaxOps == 2            \* commands the callers send in the full specification
MaxEpochOps == 3       \* commands the callers send in the epoch specification
MaxResolveOps == 3     \* commands the callers send in the resolve specification
MaxFail == 1           \* failures injected outside the scan specification
MaxTs == 2             \* timestamps are 1..MaxTs
MaxScanOps == 1        \* commands the callers send in the scan specification
ScanFailSlack == 1     \* failures available beyond the scan retry budget
MaxReplayOps == 2      \* commands the callers send in the replay specification
MaxCtx == 2            \* context layers around an error
MaxPoolCmds == 3       \* commands submitted to the scan pool in the pool specification

Regions == {1, 2}
Epochs == {<<1, 1>>, <<2, 1>>, <<1, 2>>}   \* (conf_ver, version)
Timestamps == 1..MaxTs

----------------------------------------------------------------------------
(* Retry parameters and backoff *)

TRY_START_OBSERVE_MAX_RETRY_TIME == 24
RETRY_AWAIT_BASIC_DURATION == 1
RETRY_AWAIT_MAX_DURATION == 16

RECURSIVE Pow2(_)
Pow2(n) == IF n = 0 THEN 1 ELSE 2 * Pow2(n - 1)

\* 1 << failed_for on a u32: the shift amount is taken modulo the width in a
\* release build, and the result is below 2^32
Shl1(n) == Pow2(n % 32)

Min2(a, b) == IF a <= b THEN a ELSE b

\* mutant: a delay that grows linearly
backoff_linear(failed_for) ==
    Min2(RETRY_AWAIT_BASIC_DURATION * (failed_for + 1), RETRY_AWAIT_MAX_DURATION)

backoff_for_start_observe(failed_for) ==
    Min2(RETRY_AWAIT_BASIC_DURATION * Shl1(failed_for), RETRY_AWAIT_MAX_DURATION)

----------------------------------------------------------------------------
(* Errors and the retryability predicate *)

ErrKinds ==
    { "RaftRequest_epoch_not_match", "RaftRequest_not_leader",
      "RaftRequest_stale_observe_id", "RaftRequest_region_not_found",
      "RaftRequest_other",
      "RaftStore_RegionNotFound", "RaftStore_NotLeader", "RaftStore_EpochNotMatch",
      "RaftStore_other", "ObserveCanceled", "Other" }

\* an error: what it is, under ctx layers of Error::Contextual
Error(kind, ctx) == [kind |-> kind, ctx |-> ctx]

\* Error::without_context: the error under its context layers
without_context(err) == [err EXCEPT !.ctx = 0]

\* the match of should_retry on an error that is no Error::Contextual
RetryableKind(kind) ==
    CASE kind = "RaftRequest_epoch_not_match" -> FALSE
      [] kind = "RaftRequest_not_leader" -> FALSE
      [] kind = "RaftRequest_stale_observe_id" -> FALSE
      [] kind = "RaftRequest_region_not_found" -> FALSE
      [] kind = "RaftRequest_other" -> TRUE
      [] kind = "RaftStore_RegionNotFound" -> FALSE
      [] kind = "RaftStore_NotLeader" -> FALSE
      [] kind = "ObserveCanceled" -> FALSE
      [] kind = "RaftStore_EpochNotMatch" -> FALSE
      [] OTHER -> TRUE

\* mutant: match err without without_context(): Error::Contextual falls to `_ => true`
should_retry_wrapped(err) == IF err.ctx > 0 THEN TRUE ELSE RetryableKind(err.kind)

should_retry(err) == RetryableKind(without_context(err).kind)

\* no call of a free function is recorded
NoCall == [fn |-> "none", n |-> 0, err |-> Error("Other", 0), delay |-> 0,
           retry |-> FALSE, done |-> FALSE, ovf |-> FALSE]

----------------------------------------------------------------------------
(* Subscription tracker *)

NoRec == [state |-> "None", epoch |-> <<0, 0>>, handle |-> 0, cp |-> 0]

Region(id, epoch) == [id |-> id, epoch |-> epoch]

\* the key range of a region changes with its version (split, merge), not with
\* its conf_ver (membership change)
RangeOf(region) == <<region.id, region.epoch[2]>>

\* raftstore::store::util::compare_region_epoch(from_epoch, region, check_conf_ver,
\* check_ver, _).is_ok(): the epoch of `region` dominates or equals from_epoch
compare_region_epoch(from_epoch, region, check_conf_ver, check_ver) ==
    /\ check_conf_ver => region.epoch[1] >= from_epoch[1]
    /\ check_ver => region.epoch[2] >= from_epoch[2]

\* a record holds the region snapshot, the handle of the observation attempt it
\* belongs to and, once registered, the checkpoint its initial scan starts from
\* (cp = 0: not registered yet)
add_pending_region(s, region, handle) ==
    [s EXCEPT ![region.id] =
        [state |-> "Pending", epoch |-> region.epoch, handle |-> handle, cp |-> 0]]

\* mutant: the region is left as add_pending_region made it
register_region_left_pending(s, region, handle, cp) == add_pending_region(s, region, handle)

\* register_region(region, handle, Some(last_checkpoint))
register_region(s, region, handle, cp) ==
    [s EXCEPT ![region.id] =
        [state |-> "Pending", epoch |-> region.epoch, handle |-> handle, cp |-> cp]]

\* whether deregister_region_if calls if_cond: a record is tracked for the region
Exists(s, region) == s[region.id] # NoRec

\* mutant: deregister_region_if reports a removal when no record is tracked
RemovedOrAbsent(s, region, if_cond) == Exists(s, region) => if_cond

\* the return value of deregister_region_if; if_cond is what the closure
\* if_cond(old, new) returns for the tracked record old
Removed(s, region, if_cond) == Exists(s, region) /\ if_cond

deregister_region_if(s, region, if_cond) ==
    IF Removed(s, region, if_cond) THEN [s EXCEPT ![region.id] = NoRec] ELSE s

\* the record the closure of deregister_region_if is given as old
Old(s, region) == s[region.id]

\* mutant: the in-place merge succeeds whenever a record is tracked
CanUpdateAnyRange(s, region) == Exists(s, region)

\* try_update_region: the in-place merge succeeds when a record is tracked and
\* the key range is unchanged
CanUpdate(s, region) ==
    /\ Exists(s, region)
    /\ RangeOf(Region(region.id, s[region.id].epoch)) = RangeOf(region)

try_update_region(s, region) ==
    IF CanUpdate(s, region)
    THEN [s EXCEPT ![region.id].epoch = region.epoch]
    ELSE s

current_regions(s) == {r \in Regions : s[r] # NoRec}

\* the initial scan of (region, handle) finished: the record of that attempt
\* becomes Observing
scan_finished(s, region, handle) ==
    IF s[region.id] # NoRec /\ s[region.id].handle = handle
    THEN [s EXCEPT ![region.id].state = "Observing"]
    ELSE s

----------------------------------------------------------------------------
(* Commands, scan commands, results *)

Op(type, id, epoch, handle, err, ff, min_ts) ==
    [type |-> type, id |-> id, epoch |-> epoch, handle |-> handle, err |-> err,
     ff |-> ff, min_ts |-> min_ts]

NoOp == Op("None", 0, <<0, 0>>, 0, "", 0, 0)

Start(region) == Op("Start", region.id, region.epoch, 0, "", 0, 0)
Stop(region) == Op("Stop", region.id, region.epoch, 0, "", 0, 0)
Destroy(region) == Op("Destroy", region.id, region.epoch, 0, "", 0, 0)
RefreshResolver(region) == Op("RefreshResolver", region.id, region.epoch, 0, "", 0, 0)
NotifyFailToStartObserve(region, handle, err, has_failed_for) ==
    Op("NotifyFailToStartObserve", region.id, region.epoch, handle, err, has_failed_for, 0)
ResolveRegions(min_ts) == Op("ResolveRegions", 0, <<0, 0>>, 0, "", 0, min_ts)

RegionOf(op) == Region(op.id, op.epoch)

ScanCmd(region, handle, last_checkpoint) ==
    [id |-> region.id, epoch |-> region.epoch, handle |-> handle, cp |-> last_checkpoint]

NoRes == [valid |-> FALSE, min_ts |-> 0, items |-> {}, global |-> 0,
          timedout |-> FALSE, outstanding |-> 0, prev |-> 0]

\* Task::FatalError(TaskSelector::ByRange(start_key, end_key), err)
FatalError(region, from, err) == [range |-> RangeOf(region), from |-> from, err |-> err]

\* what the loop did next: it received op, with the answers of
\* find_task_by_region (found) and find_region_by_id (info) where it asked, or
\* it got the answer res of the checkpoint fetch
RecvEvent(op, found, info) ==
    [kind |-> "recv", op |-> op, found |-> found, info |-> info,
     res |-> [ok |-> FALSE, ts |-> 0]]

FetchEvent(res) ==
    [kind |-> "fetch", op |-> NoOp, found |-> FALSE, info |-> "none", res |-> res]

\* the log of a specification that does not record
NoLog == <<[kind |-> "off", op |-> NoOp, found |-> FALSE, info |-> "none",
            res |-> [ok |-> FALSE, ts |-> 0]]>>

Logged(e) == IF log = NoLog THEN log ELSE Append(log, e)

----------------------------------------------------------------------------
(* Scan executor pool *)

\* CallbackWaitGroup, as the number of outstanding Work tokens: a clone of
\* the group is another reference to the same counter
wg_clone(n) == n

\* CallbackWaitGroup::work: one more outstanding token
work(n) == n + 1

\* drop of a Work token: one outstanding token less
work_done(n) == n - 1

\* mutant: the clone of the group counts as an outstanding token
AcquireWorkCountingClone(n) == work(work(n))

\* _work: self.scans.clone().work(), the token of a new ScanCmd
AcquireWork(n) == work(wg_clone(n))

\* mutant: an exhausted retry budget ends the command without a fatal error
ScanOutcomeNoFatal(res, retry_time) ==
    IF res # "ok" /\ should_retry(Error(res, 0)) /\ retry_time > 0 THEN "retry" ELSE "stop"

\* mutant: no retry arm, every failure of the scan is fatal
ScanOutcomeFatalOnFailure(res, retry_time) ==
    IF res # "ok" THEN "fatal" ELSE "stop"

\* what one iteration of the loop of exec_by_with_retry does with the result
\* of exec_by: "retry", "fatal" or "stop"
ScanOutcome(res, retry_time) ==
    IF res # "ok" /\ should_retry(Error(res, 0)) /\ retry_time > 0 THEN "retry"
    ELSE IF res # "ok" /\ retry_time = 0 THEN "fatal"
    ELSE "stop"

\* the ScanPoolHandle returned by spawn_executors is held: the channel of the
\* pool is open and its runtime runs
PoolRunning == [open |-> TRUE, abandoned |-> 0]

\* ScanPoolHandle::request as test_message_delay_and_exit calls it: a command
\* with its own Work token is sent to the channel of the pool; handles tell
\* the commands apart
PoolRequest(r) ==
    /\ pool.open /\ opBudget > 0
    /\ opBudget' = opBudget - 1
    /\ scans' = AcquireWork(scans)
    /\ scanq' = Append(scanq, ScanCmd(Region(r, <<1, 1>>), nextHandle, 1))
    /\ nextHandle' = nextHandle + 1
    /\ UNCHANGED <<mailbox, sendersOpen, loop_pc, cur, before, curHandle, subs, tasks,
                   handleScans, timers, fatal, failBudget, cbCount, lastRes,
                   lastGlobal, log, call, pool>>

\* mutant: the drop of the pool waits until every submitted command has ended
CanDropPoolWhenDrained == pool.open /\ scanq = <<>> /\ tasks = {}

\* drop(pool) can proceed: the executor loop and the scan tasks are futures of
\* the runtime, suspended at an await between two steps
CanDropPool == pool.open

\* drop of the ScanPoolHandle: the Sender and the runtime are dropped, and with
\* the runtime the executor loop, the scan tasks and the channel; every
\* command they held is dropped with its Work token
DropPool ==
    /\ CanDropPool
    /\ pool' = [open |-> FALSE, abandoned |-> Len(scanq) + Cardinality(tasks)]
    /\ scanq' = <<>>
    /\ tasks' = {}
    /\ scans' = scans - (Len(scanq) + Cardinality(tasks))
    /\ UNCHANGED <<mailbox, opBudget, sendersOpen, loop_pc, cur, before, curHandle, subs,
                   nextHandle, handleScans, timers, fatal, failBudget, cbCount,
                   lastRes, lastGlobal, log, call>>

\* mutant: the executor loop awaits the command it received before it
\* receives the next one
ScanRecvOneByOne ==
    /\ pool.open
    /\ scanq # <<>> /\ tasks = {}
    /\ tasks' = tasks \cup
          {[cmd |-> Head(scanq), retry_time |-> TRY_START_OBSERVE_MAX_RETRY_TIME,
            pc |-> "exec"]}
    /\ scanq' = Tail(scanq)
    /\ UNCHANGED <<mailbox, opBudget, sendersOpen, loop_pc, cur, before, curHandle, subs,
                   nextHandle, scans, handleScans, timers, fatal, failBudget,
                   cbCount, lastRes, lastGlobal, log, call, pool>>

\* scan_executor_loop: receive a command and spawn its task
ScanRecv ==
    /\ pool.open
    /\ scanq # <<>>
    /\ tasks' = tasks \cup
          {[cmd |-> Head(scanq), retry_time |-> TRY_START_OBSERVE_MAX_RETRY_TIME,
            pc |-> "exec"]}
    /\ scanq' = Tail(scanq)
    /\ UNCHANGED <<mailbox, opBudget, sendersOpen, loop_pc, cur, before, curHandle, subs,
                   nextHandle, scans, handleScans, timers, fatal, failBudget,
                   cbCount, lastRes, lastGlobal>>
    /\ UNCHANGED log
    /\ UNCHANGED call
    /\ UNCHANGED pool

\* mutant: the token of the command is released at the end of every attempt
TokenReleasedByAttempt(outcome, n) == work_done(n)

\* the Work token of the command after one iteration of the loop of
\* exec_by_with_retry: `continue` keeps self, and with it _work, alive; `break`
\* returns from the function, which owns self, and drops it
TokenAfter(outcome, n) == IF outcome = "retry" THEN n ELSE work_done(n)

\* one attempt of exec_by_with_retry: exec_by returns res
ScanExec(t, res) ==
    /\ pool.open
    /\ t \in tasks /\ t.pc = "exec"
    /\ res # "ok" => failBudget > 0
    /\ failBudget' = IF res = "ok" THEN failBudget ELSE failBudget - 1
    /\ LET region == Region(t.cmd.id, t.cmd.epoch)
           outcome == ScanOutcome(res, t.retry_time)
       IN  CASE outcome = "retry" ->
                  /\ tasks' = (tasks \ {t}) \cup {[t EXCEPT !.pc = "sleep"]}
                  /\ scans' = TokenAfter(outcome, scans)
                  /\ UNCHANGED <<fatal, subs>>
             [] outcome = "fatal" ->
                  /\ fatal' = Append(fatal, FatalError(region, "scan", res))
                  /\ tasks' = tasks \ {t}
                  /\ scans' = TokenAfter(outcome, scans)
                  /\ UNCHANGED subs
             [] OTHER ->
                  /\ tasks' = tasks \ {t}
                  /\ scans' = TokenAfter(outcome, scans)
                  /\ subs' = IF res = "ok"
                             THEN scan_finished(subs, region, t.cmd.handle)
                             ELSE subs
                  /\ UNCHANGED fatal
    /\ UNCHANGED <<mailbox, opBudget, sendersOpen, loop_pc, cur, before, curHandle,
                   nextHandle, scanq, handleScans, timers, cbCount, lastRes,
                   lastGlobal>>
    /\ UNCHANGED log
    /\ UNCHANGED call
    /\ UNCHANGED pool

\* mutant: the retry of a failed scan is a new Start sent to the mailbox
ScanWakeResend(t) ==
    /\ t \in tasks /\ t.pc = "sleep"
    /\ tasks' = tasks \ {t}
    /\ scans' = work_done(scans)
    /\ mailbox' = Append(mailbox, Start(Region(t.cmd.id, t.cmd.epoch)))
    /\ UNCHANGED <<opBudget, sendersOpen, loop_pc, cur, before, curHandle, subs,
                   nextHandle, scanq, handleScans, timers, fatal, failBudget,
                   cbCount, lastRes, lastGlobal>>
    /\ UNCHANGED log
    /\ UNCHANGED call
    /\ UNCHANGED pool

\* the sleep of backoff_for_start_observe(24 - retry_time) elapsed
ScanWake(t) ==
    /\ pool.open
    /\ t \in tasks /\ t.pc = "sleep"
    /\ tasks' = (tasks \ {t}) \cup
          {[t EXCEPT !.pc = "exec", !.retry_time = t.retry_time - 1]}
    /\ UNCHANGED <<mailbox, opBudget, sendersOpen, loop_pc, cur, before, curHandle, subs,
                   nextHandle, scanq, scans, handleScans, timers, fatal, failBudget,
                   cbCount, lastRes, lastGlobal>>
    /\ UNCHANGED log
    /\ UNCHANGED call
    /\ UNCHANGED pool

----------------------------------------------------------------------------
(* Callers of the manager *)

\* RegionSubscriptionManager::request: send a command to the mailbox
Send(op) ==
    /\ sendersOpen /\ opBudget > 0
    /\ loop_pc # "exited"
    /\ mailbox' = Append(mailbox, op)
    /\ opBudget' = opBudget - 1
    /\ UNCHANGED <<sendersOpen, loop_pc, cur, before, curHandle, subs, nextHandle, scanq,
                   tasks, scans, handleScans, timers, fatal, failBudget, cbCount,
                   lastRes, lastGlobal>>
    /\ UNCHANGED log
    /\ UNCHANGED call
    /\ UNCHANGED pool

\* the callers drop their senders
DropSenders ==
    /\ sendersOpen
    /\ sendersOpen' = FALSE
    /\ opBudget' = 0
    /\ UNCHANGED <<mailbox, loop_pc, cur, before, curHandle, subs, nextHandle, scanq, tasks,
                   scans, handleScans, timers, fatal, failBudget, cbCount, lastRes,
                   lastGlobal>>
    /\ UNCHANGED log
    /\ UNCHANGED call
    /\ UNCHANGED pool

\* the endpoint forwards a Task::ModifyObserve it gets from the scheduler with
\* the manager handle it holds; it is one of the callers, and has no handle
\* once the callers dropped theirs
Forward(mb, op) == IF sendersOpen THEN Append(mb, op) ELSE mb

\* the sleep of a retry timer elapsed: the notification goes to the scheduler,
\* which forwards Task::ModifyObserve to the mailbox
TimerFire(n) ==
    /\ n \in timers
    /\ loop_pc # "exited"
    /\ timers' = timers \ {n}
    /\ mailbox' = Forward(mailbox, n)
    /\ UNCHANGED <<opBudget, sendersOpen, loop_pc, cur, before, curHandle, subs, nextHandle,
                   scanq, tasks, scans, handleScans, fatal, failBudget, cbCount,
                   lastRes, lastGlobal>>
    /\ UNCHANGED log
    /\ UNCHANGED call
    /\ UNCHANGED pool

----------------------------------------------------------------------------
(* Operator loop *)

\* the Senders of the mailbox the loop holds itself: start() runs the loop on
\* op.clone(), whose messenger is a clone of tx, until the loop's future ends
LoopSenders == IF loop_pc = "exited" THEN 0 ELSE 1

\* every Sender of the mailbox has been dropped
ChannelClosed == ~sendersOpen /\ LoopSenders = 0

\* message_box.recv().await returns None: nothing queued, channel closed
RecvNone == loop_pc = "recv" /\ mailbox = <<>> /\ ChannelClosed

\* mutant: the next command is taken while the handler of the last one is suspended
CanRecvWhileBusy == loop_pc # "exited" /\ mailbox # <<>>

\* message_box.recv().await returns Some(op): the loop stands at the head of
\* its while loop and a command is queued
CanRecv == loop_pc = "recv" /\ mailbox # <<>>

\* the effects every handler shares when it takes the next command
Dequeue ==
    /\ mailbox' = Tail(mailbox)
    /\ cur' = Head(mailbox)
    /\ before' = IF Head(mailbox).id \in Regions THEN subs[Head(mailbox).id] ELSE NoRec
    /\ cbCount' = 0
    /\ lastRes' = NoRes

\* mutant: Stop guarded by the epoch like Destroy
StopCondGuarded(old, new) == compare_region_epoch(old.epoch, new, TRUE, TRUE)

StopCond(old, new) == TRUE

\* mutant: the guard of Destroy also asks whether the initial scan has finished
DestroyCondIfScanned(old, new) ==
    old.state = "Observing" /\ compare_region_epoch(old.epoch, new, TRUE, TRUE)

\* mutant: Destroy without the epoch guard
DestroyCondAlways(old, new) == TRUE

\* mutant: the epochs of the comparison exchanged
DestroyCondSwapped(old, new) ==
    compare_region_epoch(new.epoch, Region(new.id, old.epoch), TRUE, TRUE)

DestroyCond(old, new) == compare_region_epoch(old.epoch, new, TRUE, TRUE)

\* mutant: the attempt keeps the handle the command carries instead of
\* ObserveHandle::new()
start_observe_reusing_handle(s, op) ==
    /\ nextHandle' = nextHandle
    /\ subs' = add_pending_region(s, RegionOf(op), op.handle)
    /\ \E found \in BOOLEAN :
          IF found
          THEN loop_pc' = "fetch" /\ curHandle' = op.handle
          ELSE loop_pc' = "recv" /\ curHandle' = 0

\* mutant: a region that no task covers is treated like a region of a task:
\* the attempt goes on to the checkpoint fetch
start_observe_without_task(s, op) ==
    /\ nextHandle' = nextHandle + 1
    /\ subs' = add_pending_region(s, RegionOf(op), nextHandle)
    /\ loop_pc' = "fetch" /\ curHandle' = nextHandle

\* start_observe_with_failure_count up to the await of the checkpoint fetch in
\* try_start_observe; s is the tracker the caller left; found is whether
\* find_task_by_region returns a task
start_observe_with_failure_count(s, op) ==
    /\ nextHandle' = nextHandle + 1
    /\ subs' = add_pending_region(s, RegionOf(op), nextHandle)
    /\ \E found \in BOOLEAN :
          IF found
          THEN loop_pc' = "fetch" /\ curHandle' = nextHandle
          ELSE loop_pc' = "recv" /\ curHandle' = 0

OnStart ==
    /\ CanRecv /\ Head(mailbox).type = "Start"
    /\ Dequeue
    /\ start_observe_with_failure_count(subs, Head(mailbox))
    /\ UNCHANGED <<opBudget, sendersOpen, scanq, tasks, scans, handleScans, timers,
                   fatal, failBudget, lastGlobal>>
    /\ log' = Logged(RecvEvent(Head(mailbox), loop_pc' = "fetch", "none"))
    /\ UNCHANGED call
    /\ UNCHANGED pool

OnStop ==
    /\ CanRecv /\ Head(mailbox).type = "Stop"
    /\ Dequeue
    /\ subs' = deregister_region_if(subs, RegionOf(Head(mailbox)),
                                   StopCond(Old(subs, RegionOf(Head(mailbox))),
                                            RegionOf(Head(mailbox))))
    /\ UNCHANGED <<opBudget, sendersOpen, loop_pc, curHandle, nextHandle, scanq,
                   tasks, scans, handleScans, timers, fatal, failBudget, lastGlobal>>
    /\ log' = Logged(RecvEvent(Head(mailbox), loop_pc' = "fetch", "none"))
    /\ UNCHANGED call
    /\ UNCHANGED pool

OnDestroy ==
    /\ CanRecv /\ Head(mailbox).type = "Destroy"
    /\ Dequeue
    /\ subs' = deregister_region_if(subs, RegionOf(Head(mailbox)),
                                   DestroyCond(Old(subs, RegionOf(Head(mailbox))),
                                               RegionOf(Head(mailbox))))
    /\ UNCHANGED <<opBudget, sendersOpen, loop_pc, curHandle, nextHandle, scanq,
                   tasks, scans, handleScans, timers, fatal, failBudget, lastGlobal>>
    /\ log' = Logged(RecvEvent(Head(mailbox), loop_pc' = "fetch", "none"))
    /\ UNCHANGED call
    /\ UNCHANGED pool

\* mutant: the refresh clears the old record only under the epoch guard of Destroy
RefreshCondGuarded(old, new) == compare_region_epoch(old.epoch, new, TRUE, TRUE)

\* the closure refresh_resolver gives deregister_region_if: |_, _| true
RefreshCond(old, new) == TRUE

\* refresh_resolver up to the await of the checkpoint fetch
OnRefreshResolver ==
    /\ CanRecv /\ Head(mailbox).type = "RefreshResolver"
    /\ Dequeue
    /\ LET op == Head(mailbox)
           region == RegionOf(op)
           need_refresh_all == ~CanUpdate(subs, region)
           canceled == Removed(subs, region, RefreshCond(Old(subs, region), region))
           s1 == deregister_region_if(subs, region, RefreshCond(Old(subs, region), region))
       IN  IF ~need_refresh_all
           THEN /\ subs' = try_update_region(subs, region)
                /\ UNCHANGED <<loop_pc, curHandle, nextHandle>>
           ELSE /\ nextHandle' = nextHandle + 1
                /\ IF canceled
                   THEN \E found \in BOOLEAN :
                          IF found
                          THEN /\ subs' = add_pending_region(s1, region, nextHandle)
                               /\ loop_pc' = "fetch"
                               /\ curHandle' = nextHandle
                          ELSE /\ subs' = s1
                               /\ UNCHANGED <<loop_pc, curHandle>>
                   ELSE /\ subs' = s1
                        /\ UNCHANGED <<loop_pc, curHandle>>
    /\ UNCHANGED <<opBudget, sendersOpen, scanq, tasks, scans, handleScans, timers,
                   fatal, failBudget, lastGlobal>>
    /\ log' = Logged(RecvEvent(Head(mailbox), loop_pc' = "fetch", "none"))
    /\ UNCHANGED call
    /\ UNCHANGED pool

\* mutant: the retry notification carries the failure count unchanged
SameFailureCount(has_failed_for) == has_failed_for

\* has_failed_for: has_failed_for + 1 in the notification the timer task sends
NextFailureCount(has_failed_for) == has_failed_for + 1

\* mutant: the notification of a failed attempt is sent at once by the loop
RetrySentAtOnce(type) == FALSE

\* whether the failure of the attempt of a command of this type is notified by
\* a spawned task that sleeps backoff_for_start_observe(has_failed_for) first
\* (start_observe_with_failure_count, reached from Start and from a retry
\* notification); refresh_resolver sends its notification itself, at once
RetryIsDelayed(type) == type # "RefreshResolver"

\* the await of get_last_checkpoint_of returned res (Ok(ts) or Err): the
\* rest of try_start_observe / start_observe_with_failure_count, or of
\* refresh_resolver
FetchDone(res) ==
    /\ loop_pc = "fetch"
    /\ LET region == RegionOf(cur) IN
       IF ~res.ok
       THEN /\ failBudget > 0
            /\ failBudget' = failBudget - 1
            /\ IF ~RetryIsDelayed(cur.type)
               THEN /\ mailbox' = Forward(mailbox,
                          NotifyFailToStartObserve(region, curHandle, "Other", 0))
                    /\ UNCHANGED timers
               ELSE /\ timers' = timers \cup
                          {NotifyFailToStartObserve(region, curHandle, "Other",
                                                    NextFailureCount(cur.ff))}
                    /\ UNCHANGED mailbox
            /\ UNCHANGED <<subs, scans, scanq>>
       ELSE \* observe_over_with_initial_data_from_checkpoint
            /\ subs' = register_region(subs, region, curHandle, res.ts)
            /\ scans' = AcquireWork(scans)
            /\ scanq' = Append(scanq, ScanCmd(region, curHandle, res.ts))
            /\ UNCHANGED <<mailbox, timers, failBudget>>
    /\ loop_pc' = "recv" /\ curHandle' = 0
    /\ UNCHANGED <<opBudget, sendersOpen, cur, before, nextHandle, tasks, handleScans,
                   fatal, cbCount, lastRes, lastGlobal>>
    /\ log' = Logged(FetchEvent(res))
    /\ UNCHANGED call
    /\ UNCHANGED pool

\* mutant: the failure count is allowed up to the largest u8
RetryTimeExceedsU8(failure_count) == failure_count >= 255

\* mutant: retry_observe without the check of the failure count
RetryTimeUnchecked(failure_count) == FALSE

\* mutant: >= for > in the check of the failure count
RetryTimeExceedsAtMax(failure_count) == failure_count >= TRY_START_OBSERVE_MAX_RETRY_TIME

\* retry_observe: if failure_count > TRY_START_OBSERVE_MAX_RETRY_TIME
RetryTimeExceeds(failure_count) == failure_count > TRY_START_OBSERVE_MAX_RETRY_TIME

\* mutant: no notification is recognised as canceled
IsObserveCanceledNever(err) == FALSE

\* err.error_code() == error_code::backup_stream::OBSERVE_CANCELED
IsObserveCanceled(err) == err = "ObserveCanceled"

\* mutant: the retry removes the record whatever attempt it belongs to
RetryCondAlways(old, handle) == TRUE

\* the closure retry_observe gives deregister_region_if:
\* old.handle().id == handle.id
RetryCond(old, handle) == old.handle = handle

\* NotifyFailToStartObserve and retry_observe; info is the answer of
\* RegionInfoProvider::find_region_by_id
OnNotify(info) ==
    /\ CanRecv /\ Head(mailbox).type = "NotifyFailToStartObserve"
    /\ Dequeue
    /\ LET op == Head(mailbox)
           region == RegionOf(op)
           exists == Exists(subs, region)
           removed == Removed(subs, region, RetryCond(Old(subs, region), op.handle))
           s1 == deregister_region_if(subs, region, RetryCond(Old(subs, region), op.handle))
       IN  IF IsObserveCanceled(op.err)
           THEN /\ loop_pc' = "exited"
                /\ UNCHANGED <<curHandle, subs, nextHandle, fatal, failBudget>>
           ELSE IF RetryTimeExceeds(op.ff)
           THEN /\ fatal' = Append(fatal, FatalError(region, "retry", "retry time exceeds"))
                /\ UNCHANGED <<loop_pc, curHandle, subs, nextHandle, failBudget>>
           ELSE IF info = "err"
           THEN /\ failBudget > 0
                /\ failBudget' = failBudget - 1
                /\ fatal' = Append(fatal, FatalError(region, "retry",
                                                     "region info accessor failed"))
                /\ UNCHANGED <<loop_pc, curHandle, subs, nextHandle>>
           ELSE IF info \in {"absent", "not-leader"} \/ (~removed /\ exists)
           THEN UNCHANGED <<loop_pc, curHandle, subs, nextHandle, fatal, failBudget>>
           ELSE /\ start_observe_with_failure_count(s1, op)
                /\ UNCHANGED <<fatal, failBudget>>
    /\ UNCHANGED <<opBudget, sendersOpen, scanq, tasks, scans, handleScans, timers,
                   lastGlobal>>
    /\ log' = Logged(RecvEvent(Head(mailbox), loop_pc' = "fetch", info))
    /\ UNCHANGED call
    /\ UNCHANGED pool

----------------------------------------------------------------------------
(* Checkpoint resolution *)

\* SubscriptionTracer::resolve_with(min_ts, regions): one ResolveResult per led
\* region that has been registered; a region whose initial scan has not
\* finished reports the checkpoint the scan starts from, an observed region
\* its resolved timestamp f[r] <= min_ts
resolve_with(s, min_ts, led, f) ==
    { [id |-> r,
       checkpoint |-> IF s[r].state = "Pending" THEN s[r].cp ELSE f[r],
       type |-> IF s[r].state = "Pending" THEN "StartTsOfInitialScan"
                ELSE IF f[r] = min_ts THEN "MinTs" ELSE "Normal"]
      : r \in {x \in led : s[x].cp # 0} }

\* mutant: max_by_key for min_by_key
GlobalCheckpointMax(cps, min_ts) ==
    IF cps = {} THEN min_ts
    ELSE (CHOOSE m \in cps : \A x \in cps : m.checkpoint >= x.checkpoint).checkpoint

\* mutant: unwrap_or_default() for unwrap_or(min_ts)
GlobalCheckpointOrZero(cps, min_ts) ==
    IF cps = {} THEN 0
    ELSE (CHOOSE m \in cps : \A x \in cps : m.checkpoint <= x.checkpoint).checkpoint

\* cps.iter().min_by_key(|rs| rs.checkpoint).map(|rs| rs.checkpoint).unwrap_or(min_ts)
GlobalCheckpoint(cps, min_ts) ==
    IF cps = {} THEN min_ts
    ELSE (CHOOSE m \in cps : \A x \in cps : m.checkpoint <= x.checkpoint).checkpoint

\* mutant: result.is_ok() for result.is_err()
WaitTimedOutInverted(outstanding) == ~(outstanding > 0)

\* RegionSubscriptionManager::wait: tokio::time::timeout(timeout, self.scans.wait())
\* reports a timeout when tokens of the wait group are still outstanding
WaitTimedOut(outstanding) == outstanding > 0

\* ResolveRegions: the loop starts waiting for the outstanding scans
OnResolveRegions ==
    /\ CanRecv /\ Head(mailbox).type = "ResolveRegions"
    /\ Dequeue
    /\ loop_pc' = "wait"
    /\ UNCHANGED <<opBudget, sendersOpen, curHandle, subs, nextHandle, scanq, tasks,
                   scans, handleScans, timers, fatal, failBudget, lastGlobal>>
    /\ log' = Logged(RecvEvent(Head(mailbox), loop_pc' = "fetch", "none"))
    /\ UNCHANGED call
    /\ UNCHANGED pool

\* mutant: a timed out wait ends the handler without the callback
DeliverUnlessTimedOut(rts, cps, timedout) ==
    IF timedout
    THEN UNCHANGED <<cbCount, lastRes, lastGlobal>>
    ELSE /\ cbCount' = cbCount + 1
         /\ lastRes' = [valid |-> TRUE, min_ts |-> cur.min_ts, items |-> cps,
                        global |-> rts, timedout |-> timedout,
                        outstanding |-> scans, prev |-> lastGlobal]
         /\ lastGlobal' = rts

\* callback(ResolvedRegions::new(rts, cps)); timedout and the outstanding count
\* are recorded beside what the callback was given
Deliver(rts, cps, timedout) ==
    /\ cbCount' = cbCount + 1
    /\ lastRes' = [valid |-> TRUE, min_ts |-> cur.min_ts, items |-> cps,
                   global |-> rts, timedout |-> timedout,
                   outstanding |-> scans, prev |-> lastGlobal]
    /\ lastGlobal' = rts

\* what the handler does after the wait returned timedout: resolve the leaders,
\* compute the checkpoints, call the callback once
ResolveAfterWait(timedout) ==
    \E led \in SUBSET current_regions(subs) :
    \E f \in [led -> 1..cur.min_ts] :
       LET cps == resolve_with(subs, cur.min_ts, led, f)
           rts == GlobalCheckpoint(cps, cur.min_ts)
       IN  Deliver(rts, cps, timedout)

\* the wait ended, by the drain of the wait group or by the 5 s timeout
ResolveFinish ==
    /\ loop_pc = "wait"
    /\ ResolveAfterWait(WaitTimedOut(scans))
    /\ loop_pc' = "recv"
    /\ UNCHANGED <<mailbox, opBudget, sendersOpen, cur, before, curHandle, subs,
                   nextHandle, scanq, tasks, scans, handleScans, timers, fatal,
                   failBudget>>
    /\ UNCHANGED log
    /\ UNCHANGED call
    /\ UNCHANGED pool

----------------------------------------------------------------------------
(* Specifications *)

RegionVals ==
    {Region(1, <<1, 1>>), Region(1, <<1, 2>>), Region(2, <<1, 1>>)}

EnvOps ==
    {Start(r) : r \in RegionVals} \cup {Stop(r) : r \in RegionVals}
    \cup {Destroy(r) : r \in RegionVals} \cup {RefreshResolver(r) : r \in RegionVals}
    \cup {ResolveRegions(t) : t \in Timestamps}
    \cup {NotifyFailToStartObserve(Region(1, <<1, 1>>), 1, e, 1) :
             e \in {"ObserveCanceled", "Other"}}

FetchResults ==
    {[ok |-> TRUE, ts |-> t] : t \in Timestamps} \cup {[ok |-> FALSE, ts |-> 0]}

\* the fetch answers with the first timestamp only
FetchOk1 == {r \in FetchResults : r.ok => r.ts = 1}

RegionInfos == {"err", "absent", "not-leader", "leader"}

InitCommon ==
    /\ mailbox = <<>>
    /\ sendersOpen = TRUE
    /\ loop_pc = "recv"
    /\ cur = NoOp
    /\ before = NoRec
    /\ curHandle = 0
    /\ subs = [r \in Regions |-> NoRec]
    /\ nextHandle = 1
    /\ scanq = <<>>
    /\ tasks = {}
    /\ scans = 0
    /\ handleScans = 0
    /\ timers = {}
    /\ fatal = <<>>
    /\ cbCount = 0
    /\ lastRes = NoRes
    /\ lastGlobal = 0
    /\ pool = PoolRunning

Init ==
    /\ InitCommon
    /\ opBudget = MaxOps
    /\ failBudget = MaxFail
    /\ log = NoLog
    /\ call = NoCall

Next ==
    \/ \E op \in EnvOps : Send(op)
    \/ DropSenders
    \/ \E n \in timers : TimerFire(n)
    \/ OnStart
    \/ OnStop
    \/ OnDestroy
    \/ OnRefreshResolver
    \/ \E res \in FetchOk1 : FetchDone(res)
    \/ \E info \in RegionInfos : OnNotify(info)
    \/ OnResolveRegions
    \/ ResolveFinish
    \/ ScanRecv
    \/ \E t \in tasks : \E res \in ErrKinds \cup {"ok"} : ScanExec(t, res)
    \/ \E t \in tasks : ScanWake(t)

Spec == Init /\ [][Next]_vars

\* the commands on one region, at every epoch; no failure, no checkpoint resolution
EpochEnvOps ==
    {Start(Region(1, e)) : e \in Epochs} \cup {Stop(Region(1, e)) : e \in Epochs}
    \cup {Destroy(Region(1, e)) : e \in Epochs}
    \cup {RefreshResolver(Region(1, e)) : e \in Epochs}

InitEpoch ==
    /\ InitCommon
    /\ opBudget = MaxEpochOps
    /\ failBudget = 0
    /\ log = NoLog
    /\ call = NoCall

NextEpoch ==
    \/ \E op \in EpochEnvOps : Send(op)
    \/ OnStart
    \/ OnStop
    \/ OnDestroy
    \/ OnRefreshResolver
    \/ \E res \in {r \in FetchOk1 : r.ok} : FetchDone(res)
    \/ ScanRecv
    \/ \E t \in tasks : \E res \in ErrKinds \cup {"ok"} : ScanExec(t, res)

SpecEpoch == InitEpoch /\ [][NextEpoch]_vars

\* two regions started and stopped, and checkpoint resolutions
ResolveEnvOps ==
    {Start(Region(1, <<1, 1>>)), Start(Region(2, <<1, 1>>)), Stop(Region(1, <<1, 1>>))}
    \cup {ResolveRegions(t) : t \in Timestamps}

InitResolve ==
    /\ InitCommon
    /\ opBudget = MaxResolveOps
    /\ failBudget = 0
    /\ log = NoLog
    /\ call = NoCall

NextResolve ==
    \/ \E op \in ResolveEnvOps : Send(op)
    \/ OnStart
    \/ OnStop
    \/ \E res \in FetchResults : FetchDone(res)
    \/ OnResolveRegions
    \/ ResolveFinish
    \/ ScanRecv
    \/ \E t \in tasks : \E res \in ErrKinds \cup {"ok"} : ScanExec(t, res)

SpecResolve == InitResolve /\ [][NextResolve]_vars

\* one region started, with enough failures to exhaust a retry budget
ScanEnvOps == {Start(Region(1, <<1, 1>>)), ResolveRegions(1)}

InitScan ==
    /\ InitCommon
    /\ opBudget = MaxScanOps
    /\ failBudget = TRY_START_OBSERVE_MAX_RETRY_TIME + ScanFailSlack
    /\ log = NoLog
    /\ call = NoCall

NextScan ==
    \/ \E op \in ScanEnvOps : Send(op)
    \/ OnStart
    \/ \E res \in FetchOk1 : FetchDone(res)
    \/ \E n \in timers : TimerFire(n)
    \/ \E info \in RegionInfos : OnNotify(info)
    \/ OnResolveRegions
    \/ ResolveFinish
    \/ ScanRecv
    \/ \E t \in tasks : \E res \in ErrKinds \cup {"ok"} : ScanExec(t, res)
    \/ \E t \in tasks : ScanWake(t)

SpecScan == InitScan /\ [][NextScan]_vars

\* one region started whose checkpoint fetch keeps failing until the retry
\* budget is used up, recording what the region-info provider knows of the
\* region each time a notification is handled
InitBudget ==
    /\ InitCommon
    /\ opBudget = MaxScanOps
    /\ failBudget = TRY_START_OBSERVE_MAX_RETRY_TIME + ScanFailSlack
    /\ log = <<>>
    /\ call = NoCall

NextBudget ==
    \/ Send(Start(Region(1, <<1, 1>>)))
    \/ OnStart
    \/ \E res \in FetchOk1 : FetchDone(res)
    \/ \E n \in timers : TimerFire(n)
    \/ \E info \in RegionInfos : OnNotify(info)

SpecBudget == InitBudget /\ [][NextBudget]_vars

\* the program's own steps, without the callers'
ProgramNext ==
    \/ \E n \in timers : TimerFire(n)
    \/ OnStart
    \/ OnStop
    \/ OnDestroy
    \/ OnRefreshResolver
    \/ \E res \in FetchOk1 : FetchDone(res)
    \/ \E info \in RegionInfos : OnNotify(info)
    \/ OnResolveRegions
    \/ ResolveFinish
    \/ ScanRecv
    \/ \E t \in tasks : \E res \in ErrKinds \cup {"ok"} : ScanExec(t, res)
    \/ \E t \in tasks : ScanWake(t)

\* the runtime keeps polling the loop, the scan tasks and the timers
SpecLive == Spec /\ WF_vars(ProgramNext)

\* the commands that change the tracker, on two regions, with failures, scans
\* and retry timers, recording what the loop received and was answered
ReplayEnvOps ==
    {Start(Region(1, <<1, 1>>)), Start(Region(2, <<1, 1>>)), Stop(Region(1, <<1, 1>>)),
     Destroy(Region(1, <<1, 1>>)), RefreshResolver(Region(1, <<1, 2>>))}

InitReplay ==
    /\ InitCommon
    /\ opBudget = MaxReplayOps
    /\ failBudget = MaxFail
    /\ log = <<>>
    /\ call = NoCall

NextReplay ==
    \/ \E op \in ReplayEnvOps : Send(op)
    \/ \E n \in timers : TimerFire(n)
    \/ OnStart
    \/ OnStop
    \/ OnDestroy
    \/ OnRefreshResolver
    \/ \E res \in FetchOk1 : FetchDone(res)
    \/ \E info \in RegionInfos : OnNotify(info)
    \/ ScanRecv
    \/ \E t \in tasks : \E res \in {"Other", "ok"} : ScanExec(t, res)
    \/ \E t \in tasks : ScanWake(t)

SpecReplay == InitReplay /\ [][NextReplay]_vars

\* the free functions are called on the arguments their callers can give them:
\* failure counts up to the maximum, every kind of error under context layers
BackoffCalls ==
    {[NoCall EXCEPT !.fn = "backoff_for_start_observe", !.n = n] :
        n \in 0..TRY_START_OBSERVE_MAX_RETRY_TIME}

ShouldRetryCalls ==
    {[NoCall EXCEPT !.fn = "should_retry", !.err = Error(k, c)] :
        k \in ErrKinds, c \in 0..MaxCtx}

\* the two retry chains in the worst case, every attempt failing with an
\* error that is retried: call.n is the counter of the chain (retry_time of
\* exec_by_with_retry, starting at the maximum; has_failed_for of
\* start_observe_with_failure_count, starting at 0), call.delay the seconds
\* slept so far, call.ovf whether an operation left the range of its type
ChainCalls ==
    { [NoCall EXCEPT !.fn = "exec_by_with_retry", !.n = TRY_START_OBSERVE_MAX_RETRY_TIME],
      [NoCall EXCEPT !.fn = "start_observe_with_failure_count", !.n = 0] }

InitPure ==
    /\ InitCommon
    /\ opBudget = 0
    /\ failBudget = 0
    /\ log = NoLog
    /\ call \in BackoffCalls \cup ShouldRetryCalls \cup ChainCalls

CallBackoff ==
    /\ call.fn = "backoff_for_start_observe" /\ ~call.done
    /\ call' = [call EXCEPT !.delay = backoff_for_start_observe(call.n), !.done = TRUE]
    /\ UNCHANGED <<mailbox, opBudget, sendersOpen, loop_pc, cur, before, curHandle, subs,
                   nextHandle, scanq, tasks, scans, handleScans, timers, fatal,
                   failBudget, cbCount, lastRes, lastGlobal, log, pool>>

CallShouldRetry ==
    /\ call.fn = "should_retry" /\ ~call.done
    /\ call' = [call EXCEPT !.retry = should_retry(call.err), !.done = TRUE]
    /\ UNCHANGED <<mailbox, opBudget, sendersOpen, loop_pc, cur, before, curHandle, subs,
                   nextHandle, scanq, tasks, scans, handleScans, timers, fatal,
                   failBudget, cbCount, lastRes, lastGlobal, log, pool>>

\* a + b on u8 leaves 0..255
U8AddOverflows(a, b) == a + b > 255

\* a - b on u8 leaves 0..255
U8SubOverflows(a, b) == a < b

\* 1 << n on a 32-bit integer: the shift amount must be below the width
ShlOverflows(n) == n >= 32

\* one more failed attempt of exec_by_with_retry: with retries left, sleep
\* backoff_for_start_observe(TRY_START_OBSERVE_MAX_RETRY_TIME - retry_time) and
\* retry_time -= 1; with none left, the fatal error ends the chain
ScanChainStep ==
    /\ call.fn = "exec_by_with_retry" /\ ~call.done
    /\ IF call.n > 0
       THEN call' = [call EXCEPT
                       !.delay = @ + backoff_for_start_observe(
                                        TRY_START_OBSERVE_MAX_RETRY_TIME - call.n),
                       !.n = @ - 1,
                       !.ovf = \/ @
                               \/ U8SubOverflows(TRY_START_OBSERVE_MAX_RETRY_TIME, call.n)
                               \/ U8SubOverflows(call.n, 1)
                               \/ ShlOverflows(TRY_START_OBSERVE_MAX_RETRY_TIME - call.n)]
       ELSE call' = [call EXCEPT !.done = TRUE]
    /\ UNCHANGED <<mailbox, opBudget, sendersOpen, loop_pc, cur, before, curHandle, subs,
                   nextHandle, scanq, tasks, scans, handleScans, timers, fatal,
                   failBudget, cbCount, lastRes, lastGlobal, log, pool>>

\* one more failed attempt of start_observe_with_failure_count: sleep
\* backoff_for_start_observe(has_failed_for) and notify has_failed_for + 1, on
\* which retry_observe starts the next attempt unless the count exceeds the
\* maximum; then the fatal error ends the chain
ObserveChainStep ==
    /\ call.fn = "start_observe_with_failure_count" /\ ~call.done
    /\ IF ~RetryTimeExceeds(call.n)
       THEN call' = [call EXCEPT
                       !.delay = @ + backoff_for_start_observe(call.n),
                       !.n = NextFailureCount(call.n),
                       !.ovf = \/ @
                               \/ U8AddOverflows(call.n, 1)
                               \/ ShlOverflows(call.n)]
       ELSE call' = [call EXCEPT !.done = TRUE]
    /\ UNCHANGED <<mailbox, opBudget, sendersOpen, loop_pc, cur, before, curHandle, subs,
                   nextHandle, scanq, tasks, scans, handleScans, timers, fatal,
                   failBudget, cbCount, lastRes, lastGlobal, log, pool>>

NextPure == CallBackoff \/ CallShouldRetry \/ ScanChainStep \/ ObserveChainStep

SpecPure == InitPure /\ [][NextPure]_vars

\* the scan pool on its own, as test_message_delay_and_exit drives it: commands
\* are submitted, the executor runs them or stalls, and the handle is dropped
InitPool ==
    /\ InitCommon
    /\ opBudget = MaxPoolCmds
    /\ failBudget = MaxFail
    /\ log = NoLog
    /\ call = NoCall

NextPool ==
    \/ \E r \in Regions : PoolRequest(r)
    \/ ScanRecv
    \/ \E t \in tasks : \E res \in {"Other", "ok"} : ScanExec(t, res)
    \/ \E t \in tasks : ScanWake(t)
    \/ DropPool

SpecPool == InitPool /\ [][NextPool]_vars

TypeOK ==
    /\ loop_pc \in {"recv", "fetch", "wait", "exited"}
    /\ scans \in Nat
    /\ cbCount \in Nat
    /\ opBudget \in Nat /\ failBudget \in Nat

----------------------------------------------------------------------------
(* Properties *)

\* this step of the loop took a command from the mailbox
Took == mailbox # <<>> /\ mailbox' = Tail(mailbox) /\ cur' = Head(mailbox)

\* epoch a dominates or equals epoch b
Dominates(a, b) == a[1] >= b[1] /\ a[2] >= b[2]

\* epoch a is newer than epoch b
Newer(a, b) == Dominates(a, b) /\ a # b

\* the handler of the command received last has finished
Handled(type) == cur.type = type /\ loop_pc = "recv"

\* C1: the loop handles one command at a time, in arrival order: a command is
\* taken only when no handler is in progress, it is the oldest one queued, the
\* command in progress stays the same while its handler is suspended, and the
\* loop changes the tracker only for the region of the command in progress (a
\* scan task only marks the record of its own attempt Observing).
C1_OneCommandAtATime ==
    [][ /\ Len(mailbox') < Len(mailbox) =>
              loop_pc = "recv" /\ Took
        /\ cur' # cur => loop_pc = "recv" /\ Took
        /\ loop_pc \in {"fetch", "wait"} =>
              cur' = cur /\ loop_pc' \in {loop_pc, "recv"}
        /\ \A r \in Regions : subs'[r] # subs[r] =>
              \/ Took /\ Head(mailbox).id = r
              \/ loop_pc = "fetch" /\ loop_pc' = "recv" /\ cur.id = r
              \/ /\ tasks' # tasks /\ UNCHANGED <<loop_pc, cur, mailbox>>
                 /\ subs'[r] = [subs[r] EXCEPT !.state = "Observing"]
      ]_vars

\* C1 witness: a handler is suspended at its checkpoint fetch while another
\* command on the same region waits in the mailbox
C1_Witness ==
    /\ loop_pc = "fetch"
    /\ mailbox # <<>>
    /\ Head(mailbox).id = cur.id
    /\ Head(mailbox).type \in {"Stop", "Destroy"}

\* C2 as stated: neither Destroy nor Stop removes a tracked record whose epoch
\* is newer than the epoch of the region named in the command.
C2_Original ==
    [][ (Took /\ Head(mailbox).type \in {"Stop", "Destroy"}
              /\ subs[Head(mailbox).id] # NoRec
              /\ Newer(subs[Head(mailbox).id].epoch, Head(mailbox).epoch))
        => subs'[Head(mailbox).id] # NoRec ]_vars

\* C2 amended: Destroy never removes a tracked record whose epoch is newer than
\* the epoch of the region named in the command; Stop removes the tracked
\* record whatever the epochs.
C2_DestroyKeepsNewer ==
    [][ (Took /\ subs[Head(mailbox).id] # NoRec
              /\ Newer(subs[Head(mailbox).id].epoch, Head(mailbox).epoch))
        => /\ Head(mailbox).type = "Destroy" => subs' = subs
           /\ Head(mailbox).type = "Stop" => subs'[Head(mailbox).id] = NoRec ]_vars

\* C2 witness: Stop named an older epoch than the tracked one and the record
\* is gone
C2_Witness ==
    /\ Handled("Stop")
    /\ before # NoRec /\ Newer(before.epoch, cur.epoch)
    /\ subs[cur.id] = NoRec

\* C3: Destroy removes the tracked record exactly when the epoch of the
\* command's region dominates or equals the tracked epoch, and changes nothing
\* otherwise.
C3_DestroyGuard ==
    [][ (Took /\ Head(mailbox).type = "Destroy") =>
          LET r == Head(mailbox).id IN
          subs' = IF subs[r] # NoRec /\ Dominates(Head(mailbox).epoch, subs[r].epoch)
                  THEN [subs EXCEPT ![r] = NoRec]
                  ELSE subs ]_vars

\* C3 witness: Destroy at an old epoch was handled after the record had been
\* refreshed in place to a newer epoch, and the record is still tracked
C3_Witness ==
    /\ Handled("Destroy")
    /\ before # NoRec /\ Newer(before.epoch, cur.epoch)
    /\ before.cp # 0
    /\ subs[cur.id] # NoRec /\ subs[cur.id].epoch = before.epoch

DoStop(s, region) == deregister_region_if(s, region, StopCond(Old(s, region), region))

\* C4: Stop removes the record of its region if one is tracked, whatever the
\* epochs, and leaves the tracker unchanged if none is; a second Stop changes
\* nothing more.
C4_StopRemoves ==
    /\ [][ (Took /\ Head(mailbox).type = "Stop") =>
              subs' = [subs EXCEPT ![Head(mailbox).id] = NoRec] ]_vars
    /\ [](\A r \in RegionVals : DoStop(DoStop(subs, r), r) = DoStop(subs, r))

\* C4 witness: Stop was handled for a region that had a record, and the record
\* is gone
C4_Witness ==
    /\ Handled("Stop")
    /\ before # NoRec /\ before.cp # 0
    /\ subs[cur.id] = NoRec

\* the checkpoints of the per-region results the callback was given last
Checkpoints(res) == {x.checkpoint : x \in res.items}

\* C5: the global checkpoint given to the callback is the minimum checkpoint
\* of the per-region results given with it, and it is min_ts when there is no
\* per-region result.
C5_GlobalIsMinimum ==
    lastRes.valid =>
        IF lastRes.items = {}
        THEN lastRes.global = lastRes.min_ts
        ELSE /\ lastRes.global \in Checkpoints(lastRes)
             /\ \A c \in Checkpoints(lastRes) : lastRes.global <= c

\* C5 witness: the callback was given two results of different checkpoints,
\* the smaller one below min_ts
C5_Witness ==
    /\ lastRes.valid
    /\ Cardinality(Checkpoints(lastRes)) = 2
    /\ lastRes.global < lastRes.min_ts

\* C6: the callback of a ResolveRegions command has not been called while the
\* loop waits for the scans, and has been called exactly once, with one
\* ResolvedRegions value, from the end of its handler until the next command
\* is taken; no other command calls it.
C6_CallbackExactlyOnce ==
    /\ cur.type = "ResolveRegions" /\ loop_pc = "wait" => cbCount = 0 /\ ~lastRes.valid
    /\ cur.type = "ResolveRegions" /\ loop_pc # "wait" => cbCount = 1 /\ lastRes.valid
    /\ cur.type # "ResolveRegions" => cbCount = 0

\* C6 witness: a ResolveRegions handler finished after a wait that timed out,
\* and the next command is queued
C6_Witness ==
    /\ Handled("ResolveRegions")
    /\ cbCount = 1 /\ lastRes.timedout
    /\ mailbox # <<>>

\* C7: the wait of ResolveRegions reports a timeout exactly when scans are
\* still outstanding as it ends, and either way the step that ends the wait
\* resolves the checkpoints and calls the callback.
C7_TimeoutDoesNotAbort ==
    [][ (loop_pc = "wait" /\ loop_pc' # "wait") =>
          /\ loop_pc' = "recv"
          /\ cbCount' = cbCount + 1
          /\ lastRes'.valid
          /\ lastRes'.timedout = (scans > 0)
          /\ lastRes'.outstanding = scans
          /\ lastRes'.global = GlobalCheckpoint(lastRes'.items, cur.min_ts)
          /\ {x.id : x \in lastRes'.items} \subseteq current_regions(subs) ]_vars

\* C7 witness: the callback was called although the wait timed out with a scan
\* outstanding, and it was given the result of a region
C7_Witness ==
    /\ Handled("ResolveRegions")
    /\ lastRes.valid /\ lastRes.timedout /\ lastRes.outstanding > 0
    /\ lastRes.items # {}
    /\ cbCount = 1

\* C8 as stated: a ResolveRegions call never delivers a global checkpoint
\* smaller than the one the call before it delivered.
C8_Original ==
    lastRes.valid /\ lastRes.prev # 0 => lastRes.global >= lastRes.prev

\* C8 amended: a ResolveRegions call delivers a global checkpoint not smaller
\* than the one the call before it delivered provided its min_ts and every
\* per-region checkpoint returned to it are not smaller than that one.
C8_NonDecreasingIfInputsAre ==
    (/\ lastRes.valid /\ lastRes.prev # 0
     /\ lastRes.min_ts >= lastRes.prev
     /\ \A c \in Checkpoints(lastRes) : c >= lastRes.prev)
    => lastRes.global >= lastRes.prev

\* C8 witness: a second call delivered, with the result of a region, a global
\* checkpoint above the one of the first call
C8_Witness ==
    /\ lastRes.valid /\ lastRes.prev # 0
    /\ lastRes.items # {}
    /\ lastRes.global > lastRes.prev

\* the failed attempts a scan task has made
Failures(t) ==
    TRY_START_OBSERVE_MAX_RETRY_TIME - t.retry_time + (IF t.pc = "sleep" THEN 1 ELSE 0)

\* this step ended an attempt of the scan task t with a failure
AttemptFailed(t) ==
    t \in tasks /\ t.pc = "exec" /\ failBudget' < failBudget /\ t \notin tasks'

\* this step reported one fatal error, for the key range of the command of t
ReportedFatalFor(t) ==
    /\ Len(fatal') = Len(fatal) + 1
    /\ SubSeq(fatal', 1, Len(fatal)) = fatal
    /\ fatal'[Len(fatal')].from = "scan"
    /\ fatal'[Len(fatal')].range = RangeOf(Region(t.cmd.id, t.cmd.epoch))

\* C9 as stated: once a scan command has failed 24 times it is not scheduled
\* any more.
C9_Original == \A t \in tasks : Failures(t) < TRY_START_OBSERVE_MAX_RETRY_TIME

\* C9 amended: a scan command is retried after each of its first 24 retryable
\* failures; the failure of its 25th attempt, whatever the error, reports
\* exactly one fatal error, selecting the key range of its region, and ends
\* the command without another retry; the scan pool reports a fatal error in
\* no other step.
C9_FatalAfterRetriesExhausted ==
    /\ [](\A t \in tasks :
             /\ t.retry_time \in 0..TRY_START_OBSERVE_MAX_RETRY_TIME
             /\ Failures(t) <= TRY_START_OBSERVE_MAX_RETRY_TIME)
    /\ [][ \A t \in tasks :
             /\ (AttemptFailed(t) /\ t.retry_time = 0) =>
                    ReportedFatalFor(t) /\ tasks' = tasks \ {t}
             /\ (AttemptFailed(t) /\ t.retry_time > 0
                     /\ [t EXCEPT !.pc = "sleep"] \in tasks') => fatal' = fatal
         ]_vars
    /\ [][ (Len(fatal') > Len(fatal) /\ fatal'[Len(fatal')].from = "scan") =>
              \E t \in tasks : AttemptFailed(t) /\ t.retry_time = 0 /\ ReportedFatalFor(t)
         ]_vars

\* C9 witness: the 25th attempt of a scan command failed with a retryable
\* error, one fatal error was reported and no task is left
C9_Witness ==
    /\ Len(fatal) = 1 /\ fatal[1].from = "scan" /\ should_retry(Error(fatal[1].err, 0))
    /\ fatal[1].range = RangeOf(Region(1, <<1, 1>>))
    /\ tasks = {} /\ scanq = <<>>
    /\ failBudget = ScanFailSlack - 1

\* C10: no fatal error is reported for a scan command whose attempt failed
\* with a non-retryable error.
C10_NoFatalForNonRetryable ==
    \A i \in 1..Len(fatal) : fatal[i].from = "scan" => should_retry(Error(fatal[i].err, 0))

\* this step handled a retry notification
TookNotify == Took /\ Head(mailbox).type = "NotifyFailToStartObserve"

\* this step sent one fatal error
SentFatal == Len(fatal') = Len(fatal) + 1 /\ SubSeq(fatal', 1, Len(fatal)) = fatal

C11_ExhaustedWitness ==
    /\ Handled("NotifyFailToStartObserve")
    /\ cur.ff = TRY_START_OBSERVE_MAX_RETRY_TIME + 1
    /\ Len(fatal) = 1 /\ fatal[1].err = "retry time exceeds"

\* C12: once the callers have dropped every Sender of the mailbox, the loop
\* handles the commands still queued and then exits.
C12_ShutdownByClosing == (~sendersOpen) ~> (loop_pc = "exited")

\* C12: the state the loop is left in after the callers dropped their
\* Senders: idle at recv() with an empty mailbox that is not closed
C12_Stuck ==
    /\ ~sendersOpen /\ mailbox = <<>> /\ loop_pc = "recv"
    /\ timers = {} /\ tasks = {} /\ scanq = <<>>
    /\ ~ChannelClosed /\ ~RecvNone

\* the mailbox is never closed while the loop runs, so recv() never returns None
C12_NeverClosedWhileRunning == (ChannelClosed => loop_pc = "exited") /\ ~RecvNone

\* this step gave the record of region r another handle
HandleChanged(r) == subs'[r] # NoRec /\ subs'[r].handle # subs[r].handle

\* the handles in use: in the tracker, in scan commands and in notifications
HandlesInUse ==
    {subs[r].handle : r \in Regions} \cup {t.cmd.handle : t \in tasks}
    \cup {scanq[i].handle : i \in 1..Len(scanq)} \cup {n.handle : n \in timers}

Core(s) ==
    [r \in Regions |-> IF s[r] = NoRec THEN NoRec ELSE [s[r] EXCEPT !.state = "Pending"]]

\* the sequential reading of the loop: the tracker s, the next handle nh, the
\* command op in progress and the handle h of its attempt
ReplayInit == [s |-> [r \in Regions |-> NoRec], nh |-> 1, op |-> NoOp, h |-> 0]

ReplayStart(st, s1, op, found) ==
    [s |-> add_pending_region(s1, RegionOf(op), st.nh), nh |-> st.nh + 1,
     op |-> op, h |-> IF found THEN st.nh ELSE 0]

ReplayRecv(st, e) ==
    LET op == e.op
        region == RegionOf(op)
        idle == [st EXCEPT !.op = op, !.h = 0]
    IN  CASE op.type = "Start" -> ReplayStart(st, st.s, op, e.found)
          [] op.type = "Stop" ->
               [idle EXCEPT !.s = deregister_region_if(st.s, region,
                                     StopCond(Old(st.s, region), region))]
          [] op.type = "Destroy" ->
               [idle EXCEPT !.s = deregister_region_if(st.s, region,
                                     DestroyCond(Old(st.s, region), region))]
          [] op.type = "RefreshResolver" ->
               IF CanUpdate(st.s, region)
               THEN [idle EXCEPT !.s = try_update_region(st.s, region)]
               ELSE LET canceled == Removed(st.s, region, RefreshCond(Old(st.s, region), region))
                        s1 == deregister_region_if(st.s, region,
                                  RefreshCond(Old(st.s, region), region))
                    IN  IF canceled /\ e.found
                        THEN ReplayStart(st, s1, op, TRUE)
                        ELSE [idle EXCEPT !.s = s1, !.nh = st.nh + 1]
          [] op.type = "NotifyFailToStartObserve" ->
               LET removed == Removed(st.s, region, Old(st.s, region).handle = op.handle)
                   s1 == deregister_region_if(st.s, region,
                             Old(st.s, region).handle = op.handle)
               IN  IF \/ op.err = "ObserveCanceled"
                      \/ RetryTimeExceeds(op.ff)
                      \/ e.info \in {"err", "absent", "not-leader"}
                      \/ (~removed /\ Exists(st.s, region))
                   THEN idle
                   ELSE ReplayStart(st, s1, op, e.found)
          [] OTHER -> idle

ReplayStep(st, e) ==
    IF e.kind = "fetch"
    THEN [st EXCEPT !.h = 0,
                    !.s = IF e.res.ok
                          THEN register_region(st.s, RegionOf(st.op), st.h, e.res.ts)
                          ELSE st.s]
    ELSE ReplayRecv(st, e)

RECURSIVE ReplayFrom(_, _)
ReplayFrom(st, l) == IF l = <<>> THEN st ELSE ReplayFrom(ReplayStep(st, Head(l)), Tail(l))

Replay(l) == ReplayFrom(ReplayInit, l)

\* C14: the tracker is a function of the commands the loop received, in
\* order, and of the answers it got for them: whatever the scan tasks and the
\* timers did in between, the records tracked (region, epoch, handle,
\* checkpoint) are those the sequential reading of the log gives, and so is the
\* set of tracked regions.
C14_TrackerDeterminedByLog ==
    log # NoLog =>
       /\ Core(subs) = Replay(log).s
       /\ current_regions(subs) = current_regions(Replay(log).s)
       /\ nextHandle = Replay(log).nh

\* C14 witness: the loop received two commands while a scan task had
\* finished in between, and a region is tracked
C14_Witness ==
    /\ log # NoLog
    /\ Cardinality({i \in 1..Len(log) : log[i].kind = "recv"}) >= 2
    /\ \E r \in Regions : subs[r] # NoRec /\ subs[r].state = "Observing"
    /\ loop_pc = "recv"

\* the scan commands of region r, queued or running, that belong to the
\* attempt the record of r holds: the positions in the queue and the tasks
LiveQueued(r) ==
    {i \in 1..Len(scanq) :
        scanq[i].id = r /\ subs[r] # NoRec /\ scanq[i].handle = subs[r].handle}

LiveTasks(r) ==
    {t \in tasks : t.cmd.id = r /\ subs[r] # NoRec /\ t.cmd.handle = subs[r].handle}

\* the scan commands of region r, queued or running
ScanCmdsOf(r) ==
    {scanq[i] : i \in {j \in 1..Len(scanq) : scanq[j].id = r}}
    \cup {t.cmd : t \in {u \in tasks : u.cmd.id = r}}

\* C15: per region id the tracker holds at most one record and there is at
\* most one active observation: of the scan commands of the region, queued or
\* running, at most one belongs to the attempt the record holds, and a
\* resolution returns at most one result per region id.
C15_OneActiveObservation ==
    /\ \A r \in Regions : Cardinality(LiveQueued(r)) + Cardinality(LiveTasks(r)) <= 1
    /\ DOMAIN subs = Regions
    /\ lastRes.valid =>
          Cardinality({x.id : x \in lastRes.items}) = Cardinality(lastRes.items)

\* C15 witness: two scan commands of one region exist, of different attempts,
\* and the record of the region holds the handle of one of them
C15_Witness ==
    \E r \in Regions :
       /\ Cardinality(ScanCmdsOf(r)) = 2
       /\ subs[r] # NoRec
       /\ \E c \in ScanCmdsOf(r) : c.handle = subs[r].handle

\* the backoff sequence of the failure counts 0..5, in seconds
BackoffTable == <<1, 2, 4, 8, 16, 16>>

\* C16: the delay for the failure counts 0..5 is 1, 2, 4, 8, 16, 16 seconds;
\* for every failure count a caller can pass it is min(1s * 2^n, 16s), never
\* above the cap of 16s and not below the delay of a smaller failure count.
C16_Backoff ==
    (call.fn = "backoff_for_start_observe" /\ call.done) =>
       /\ call.n <= 5 => call.delay = BackoffTable[call.n + 1]
       /\ call.delay = (IF Pow2(call.n) <= 16 THEN Pow2(call.n) ELSE 16)
       /\ call.delay <= 16
       /\ \A m \in 0..call.n : backoff_for_start_observe(m) <= call.delay

\* C16 witness: the delay of the failure count 5 was computed, at the cap
C16_Witness ==
    /\ call.fn = "backoff_for_start_observe" /\ call.done
    /\ call.n = 5 /\ call.delay = 16

\* C17: should_retry answers false for an epoch mismatch, not leader, region
\* not found, a "stale observe id" message and observe canceled, as raft
\* request errors and as raftstore errors, under any number of context layers,
\* and true for every other error.
C17_ShouldRetry ==
    (call.fn = "should_retry" /\ call.done) =>
       (call.retry <=>
          call.err.kind \notin
             { "RaftRequest_epoch_not_match", "RaftRequest_not_leader",
               "RaftRequest_region_not_found", "RaftRequest_stale_observe_id",
               "RaftStore_EpochNotMatch", "RaftStore_NotLeader",
               "RaftStore_RegionNotFound", "ObserveCanceled" })

\* C17 witness: a non-retryable error under two context layers was answered false
C17_Witness ==
    /\ call.fn = "should_retry" /\ call.done
    /\ call.err = Error("RaftStore_EpochNotMatch", 2)
    /\ ~call.retry

\* the scan commands alive, each owning one Work token: those in the queue of
\* the scan pool and those a task of the pool is executing
LiveScanCmds == Len(scanq) + Cardinality(tasks)

\* C18: the outstanding count of the wait group changes only by one token
\* added when a scan command is built and queued, and by one token removed
\* when a scan command is dropped; the clone made to build the command and
\* every other step leave it alone, so it always equals the number of live
\* scan commands.
C18_OnlyWorkCounts ==
    /\ [](scans = LiveScanCmds)
    /\ [][ scans' # scans =>
             \/ /\ scans' = scans + 1
                /\ loop_pc = "fetch" /\ Len(scanq') = Len(scanq) + 1
             \/ /\ scans' = scans - 1
                /\ \E t \in tasks : tasks' = tasks \ {t} ]_vars

\* C18 witness: two commands were built from two clones of the group and one
\* of them is executing: two tokens are outstanding
C18_Witness ==
    /\ scans = 2
    /\ Cardinality(tasks) >= 1
    /\ LiveScanCmds = 2

\* the task t of the scan pool ran exec_by in this step and it returned Ok:
\* the command left the pool and no failure was consumed
ScanSucceeded(t) ==
    /\ t \in tasks /\ t.pc = "exec"
    /\ tasks' = tasks \ {t}
    /\ failBudget' = failBudget

\* the task t ran exec_by in this step, whatever it returned
ScanAttempted(t) ==
    /\ t \in tasks /\ t.pc = "exec"
    /\ t \notin tasks'

\* what ResolveRegions would report for the tracked regions in state s
ReportsInitialScan(s, id) ==
    \E f \in [Regions -> {1}] :
       \E r \in resolve_with(s, 1, Regions, f) :
          r.id = id /\ r.type = "StartTsOfInitialScan"

\* C19: while a scan command has retries left, no attempt of it emits a fatal
\* error; and when an attempt succeeds after at least one and fewer than
\* TRY_START_OBSERVE_MAX_RETRY_TIME failed attempts, the record of that
\* observation is observed: ResolveRegions no longer reports
\* StartTsOfInitialScan for the region.
C19_RetriedScanSucceeds ==
    [][ \A t \in tasks :
          /\ (ScanAttempted(t) /\ t.retry_time > 0) => fatal' = fatal
          /\ ( /\ ScanSucceeded(t)
               /\ t.retry_time > 0
               /\ t.retry_time < TRY_START_OBSERVE_MAX_RETRY_TIME
               /\ subs[t.cmd.id].handle = t.cmd.handle )
             => /\ subs'[t.cmd.id].state = "Observing"
                /\ ~ReportsInitialScan(subs', t.cmd.id) ]_vars

\* C19 witness: the only observation of region 1 failed its scan, which can
\* only have been retried since the region is now observed, and no fatal
\* error was emitted
C19_Witness ==
    /\ subs[1].state = "Observing"
    /\ subs[1].handle = 1 /\ nextHandle = 2
    /\ failBudget < TRY_START_OBSERVE_MAX_RETRY_TIME + ScanFailSlack
    /\ tasks = {} /\ scanq = <<>>
    /\ fatal = <<>>
    /\ ~ReportsInitialScan(subs, 1)

\* ObserveEvent::of: what an observer of the mailbox records for a command;
\* ObserveOp has no command that carries the result of a scan
NoEvent == [ev |-> "None", id |-> 0]

ObserveEventOf(op) ==
    CASE op.type = "Start" -> [ev |-> "Start", id |-> op.id]
      [] op.type = "Stop" -> [ev |-> "Stop", id |-> op.id]
      [] op.type = "RefreshResolver" -> [ev |-> "RefreshObs", id |-> op.id]
      [] OTHER -> NoEvent

\* the events recorded for the commands that went through the mailbox
RECURSIVE EventsOf(_)
EventsOf(l) ==
    IF l = <<>> THEN <<>>
    ELSE LET e == Head(l)
             rest == EventsOf(Tail(l))
         IN  IF e.kind = "recv" /\ ObserveEventOf(e.op) # NoEvent
             THEN <<ObserveEventOf(e.op)>> \o rest
             ELSE rest

\* the scenario of test_basic_retry for region 1 has run: the callers sent one
\* command, Start of region 1; one failure was injected, which the fetch of
\* the checkpoint did not get, so the scan did; the scan succeeded afterwards
\* and everything is quiet
ScenarioBasicRetryDone ==
    /\ opBudget = MaxReplayOps - 1
    /\ failBudget = MaxFail - 1
    /\ \A i \in 1..Len(log) : log[i].kind = "fetch" => log[i].res.ok
    /\ subs[1].state = "Observing" /\ subs[1].epoch = <<1, 1>>
    /\ mailbox = <<>> /\ loop_pc = "recv" /\ timers = {}
    /\ scanq = <<>> /\ tasks = {}

ScenarioSplitDone ==
    /\ opBudget = MaxReplayOps - 2
    /\ failBudget = MaxFail
    /\ subs[1].state = "Observing" /\ subs[1].epoch = <<1, 2>>
    /\ subs[2] = NoRec
    /\ mailbox = <<>> /\ loop_pc = "recv" /\ timers = {}
    /\ scanq = <<>> /\ tasks = {}

C23_CommandNeverEndsLoop ==
    [][ (Took /\ sendersOpen) => loop_pc' # "exited" ]_vars

\* C23: the loop has ended on a command while the callers still hold the
\* mailbox open, and a command enqueued behind it is never handled
C23_Stranded ==
    /\ loop_pc = "exited" /\ sendersOpen
    /\ cur.type = "NotifyFailToStartObserve" /\ cur.err = "ObserveCanceled"
    /\ mailbox # <<>>

\* this step took a retry notification whose error is observe canceled
TookCanceled == TookNotify /\ Head(mailbox).err = "ObserveCanceled"

\* C24: a retry notification whose error is observe canceled is dropped: the
\* step that takes it leaves the tracker unchanged, starts no observation
\* attempt, dispatches no scan, schedules no retry and emits no fatal error.
C24_CanceledIsDropped ==
    [][ TookCanceled =>
          /\ subs' = subs
          /\ nextHandle' = nextHandle /\ loop_pc' # "fetch"
          /\ scanq' = scanq /\ scans' = scans /\ tasks' = tasks
          /\ timers' = timers /\ mailbox' = Tail(mailbox)
          /\ fatal' = fatal ]_vars

\* C24 witness: a canceled notification for a tracked region whose failure
\* count is within the budget was taken, and the record is as it was before
C24_Witness ==
    /\ cur.type = "NotifyFailToStartObserve" /\ cur.err = "ObserveCanceled"
    /\ loop_pc # "recv"
    /\ before # NoRec /\ subs[cur.id] = before
    /\ fatal = <<>>

\* this step took a retry notification whose error is not observe canceled
TookRetry == TookNotify /\ Head(mailbox).err # "ObserveCanceled"

\* this step started a new observation attempt
Rerun == nextHandle' # nextHandle

\* what find_region_by_id answered in this step, as recorded
InfoGiven == log'[Len(log')].info

\* the record tracked for the region of op belongs to the attempt of op
HandleMatches(op) == subs[op.id] # NoRec /\ subs[op.id].handle = op.handle

\* no record is tracked for the region of op
Untracked(op) == subs[op.id] = NoRec

C25_UntrackedRetried ==
    /\ cur.type = "NotifyFailToStartObserve" /\ before = NoRec
    /\ subs[cur.id] # NoRec

\* this step ended the checkpoint fetch of the handler in progress with a failure
FetchFailed == loop_pc = "fetch" /\ loop_pc' = "recv" /\ failBudget' < failBudget

\* C26: a retry notification whose failure count is at most
\* TRY_START_OBSERVE_MAX_RETRY_TIME and that re-runs the dispatch path sends no
\* fatal error, and when the re-run fails in turn, a notification with the
\* failure count plus one is scheduled for the new attempt; a notification
\* whose failure count is above the maximum sends exactly one fatal error,
\* selecting the key range of its region, starts no attempt and schedules no
\* retry.
C26_BudgetOfObserveRetries ==
    /\ [][ (TookRetry /\ Rerun) =>
              /\ Head(mailbox).ff <= TRY_START_OBSERVE_MAX_RETRY_TIME
              /\ fatal' = fatal ]_vars
    /\ [][ (FetchFailed /\ cur.type = "NotifyFailToStartObserve") =>
              /\ timers' = timers \cup
                    {NotifyFailToStartObserve(RegionOf(cur), curHandle, "Other", cur.ff + 1)}
              /\ curHandle \notin {n.handle : n \in timers}
              /\ fatal' = fatal ]_vars
    /\ [][ (TookRetry /\ Head(mailbox).ff > TRY_START_OBSERVE_MAX_RETRY_TIME) =>
              /\ SentFatal
              /\ fatal'[Len(fatal')].from = "retry"
              /\ fatal'[Len(fatal')].err = "retry time exceeds"
              /\ fatal'[Len(fatal')].range = RangeOf(RegionOf(Head(mailbox)))
              /\ ~Rerun /\ loop_pc' = "recv"
              /\ timers' = timers /\ mailbox' = Tail(mailbox)
              /\ scanq' = scanq ]_vars

\* C26 witness: the notification with failure count 25 was handled: one fatal
\* error for the range of region 1, no retry pending
C26_Witness ==
    /\ Handled("NotifyFailToStartObserve")
    /\ cur.ff = TRY_START_OBSERVE_MAX_RETRY_TIME + 1
    /\ fatal = <<FatalError(Region(1, <<1, 1>>), "retry", "retry time exceeds")>>
    /\ timers = {} /\ mailbox = <<>>
    /\ nextHandle = TRY_START_OBSERVE_MAX_RETRY_TIME + 2

\* a command that starts an observation of region r is queued
StartQueued(r) ==
    \E i \in 1..Len(mailbox) :
       mailbox[i].id = r /\ mailbox[i].type \in {"Start", "RefreshResolver"}

\* the loop received, as entry i of the log, a command of one of the types for
\* region r
Received(i, r, types) ==
    log[i].kind = "recv" /\ log[i].op.id = r /\ log[i].op.type \in types

\* C27: once Stop of a region has been handled, the region stays untracked as
\* long as the loop has received no Start or RefreshResolver for it since: a
\* delayed retry notification of an attempt that failed before the Stop does
\* not create the record again.
C27_StopIsNotUndoneByRetry ==
    \A r \in Regions : \A i \in 1..Len(log) :
       ( /\ Received(i, r, {"Stop"})
         /\ \A j \in (i + 1)..Len(log) : ~Received(j, r, {"Start", "RefreshResolver"}) )
       => subs[r] = NoRec

\* C27: region 1 was stopped, no Start or RefreshResolver was enqueued after
\* the Stop, and the delayed notification of the Start that had failed before
\* the Stop made the region tracked again
C27_Resurrected ==
    /\ cur.type = "NotifyFailToStartObserve" /\ cur.id = 1
    /\ before = NoRec /\ subs[1] # NoRec
    /\ \E i \in 1..Len(log) :
          /\ Received(i, 1, {"Stop"})
          /\ \A j \in (i + 1)..Len(log) :
                log[j].kind = "recv" => log[j].op.type = "NotifyFailToStartObserve"
    /\ ~StartQueued(1)

\* C28: a step that handles a retry notification while the region-info
\* provider does not know the region, or knows it with another role than
\* leader, sends no fatal error, whatever the failure count of the notification.
C28_NoFatalForRegionNotLed ==
    [][ (TookRetry /\ InfoGiven \in {"absent", "not-leader"}) => fatal' = fatal ]_vars

\* the last entry of the log
LastLogged == log[Len(log)]

\* the retry budget was applied to a notification of a region that this store
\* does not lead any more: a fatal error was sent for it
C28_FatalForRegionNotLed ==
    /\ Handled("NotifyFailToStartObserve")
    /\ LastLogged.kind = "recv" /\ LastLogged.op = cur
    /\ LastLogged.info = "not-leader"
    /\ cur.ff = TRY_START_OBSERVE_MAX_RETRY_TIME + 1
    /\ fatal = <<FatalError(RegionOf(cur), "retry", "retry time exceeds")>>

\* this step submitted a scan command to the queue of the scan pool
ScanSubmitted == Len(scanq') = Len(scanq) + 1

\* the execution of the command of task t ended in this step
ScanEnded(t) == t \in tasks /\ \A u \in tasks' : u.cmd # t.cmd

\* the command of task t stays in the pool over this step, which is one of its
\* own: a failed attempt that will be retried, or the end of a backoff sleep
ScanRetried(t) ==
    /\ t \in tasks /\ t \notin tasks'
    /\ \E u \in tasks' : u.cmd = t.cmd

\* C29: the step that submits a scan command takes one token; the steps of a
\* command between two attempts keep it; the step that ends the execution of
\* a command (success, error that is not retried, or retries used up, in which
\* case the fatal error is sent in that step) releases one token; so the
\* outstanding count is never negative, is the number of commands submitted
\* and not ended, and is zero when no such command is left.
C29_TokenPerScanCommand ==
    /\ []( /\ scans >= 0
           /\ scans = Len(scanq) + Cardinality({t.cmd : t \in tasks})
           /\ (scanq = <<>> /\ tasks = {}) => scans = 0 )
    /\ [][ /\ ScanSubmitted => scans' = scans + 1
           /\ \A t \in tasks :
                 /\ ScanRetried(t) => scans' = scans
                 /\ ScanEnded(t) => scans' = scans - 1
                 /\ (ScanEnded(t) /\ t.retry_time = 0 /\ failBudget' < failBudget)
                       => SentFatal ]_vars

\* C29 witness: the command of region 1 used up its retries, its fatal error
\* was sent and its token released: no token is outstanding
C29_Witness ==
    /\ nextHandle = 2 /\ subs[1].handle = 1
    /\ failBudget = ScanFailSlack - 1
    /\ Len(fatal) = 1 /\ fatal[1].from = "scan"
    /\ scanq = <<>> /\ tasks = {}
    /\ scans = 0

\* the errors that tell that the region is drifting: epoch mismatch, not
\* leader, region not found, stale observe id
TopologyDrift ==
    { "RaftRequest_epoch_not_match", "RaftRequest_not_leader",
      "RaftRequest_stale_observe_id", "RaftRequest_region_not_found",
      "RaftStore_RegionNotFound", "RaftStore_NotLeader", "RaftStore_EpochNotMatch" }

\* C30: a step in which the scan of a command fails with a topology-drift
\* error leaves the region of the command untracked.
C30_DriftClearsRegion ==
    [][ \A t \in tasks : \A res \in TopologyDrift :
          ScanExec(t, res) => subs'[t.cmd.id] = NoRec ]_vars

\* the only scan command of region 1 ended on its first failure, without
\* retry and without fatal error, and the record of its observation is still
\* tracked, waiting for its initial scan
C30_DriftedStillTracked ==
    /\ nextHandle = 2 /\ subs[1].handle = 1
    /\ subs[1].state = "Pending"
    /\ failBudget = TRY_START_OBSERVE_MAX_RETRY_TIME + ScanFailSlack - 1
    /\ scanq = <<>> /\ tasks = {} /\ scans = 0
    /\ timers = {} /\ fatal = <<>>
    /\ loop_pc = "recv" /\ cur.type = "Start"
    /\ ReportsInitialScan(subs, 1)

\* the loop takes the command at the head of the mailbox
HandleNext ==
    \/ OnStart \/ OnStop \/ OnDestroy \/ OnRefreshResolver
    \/ \E info \in RegionInfos : OnNotify(info)

\* this step put op at the end of the mailbox
Enqueued(op) == mailbox' = Append(mailbox, op)

\* C31: when the checkpoint fetch of an attempt started by Start (or by a
\* retry of it) fails, the step sends nothing to the mailbox: it leaves to a
\* timer the notification for the region and the handle of the attempt, with
\* the failure count plus one, and the loop is back at the head of its while
\* loop; such a notification enters the mailbox only when its timer fires; and
\* while timers are pending the loop still takes whatever command is queued.
C31_RetryDelayedOffTheLoop ==
    /\ [][ (FetchFailed /\ cur.type # "RefreshResolver") =>
              /\ mailbox' = mailbox
              /\ NotifyFailToStartObserve(RegionOf(cur), curHandle, "Other", cur.ff + 1)
                    \in timers' \ timers
              /\ loop_pc' = "recv" ]_vars
    /\ [][ \A n \in timers \cup timers' :
              (Enqueued(n) /\ n.ff >= 1) => (n \in timers /\ n \notin timers') ]_vars
    /\ []( (timers # {} /\ CanRecv) => ENABLED HandleNext )

\* C31 witness: the attempt of Start of region 1 failed and its notification
\* is still waiting in its timer, while the loop has handled a later command
C31_Witness ==
    /\ \E n \in timers : n.id = 1 /\ n.handle = 1 /\ n.ff = 1
    /\ loop_pc = "recv" /\ cur = Start(Region(2, <<1, 1>>))
    /\ log # <<>> /\ log[1].op = Start(Region(1, <<1, 1>>))
    /\ Len(log) >= 3 /\ log[2].kind = "fetch" /\ ~log[2].res.ok
    /\ log[Len(log)].kind = "recv"

\* this step took a RefreshResolver from the mailbox
TookRefresh == Took /\ Head(mailbox).type = "RefreshResolver"

\* what a step that takes a RefreshResolver leaves alone besides the tracker
RefreshFrame ==
    /\ scanq' = scanq /\ scans' = scans /\ tasks' = tasks
    /\ timers' = timers /\ fatal' = fatal

\* C32: a RefreshResolver whose merge fails clears the old record only under
\* the epoch guard: a tracked record whose epoch the epoch of the command does
\* not dominate is kept.
C32_RefreshClearsUnderEpochGuard ==
    [][ TookRefresh =>
          LET region == RegionOf(Head(mailbox)) IN
          ( /\ ~CanUpdate(subs, region)
            /\ Exists(subs, region)
            /\ ~compare_region_epoch(subs[region.id].epoch, region, TRUE, TRUE) )
          => subs' = subs ]_vars

\* what refresh_resolver does: it first tries the in-place merge; when it
\* succeeds the record takes the new region metadata and keeps its state,
\* handle and checkpoint, and nothing else changes. When it fails and a record
\* is tracked, the old record is cleared whatever the two epochs are, and, if
\* a task covers the region, a Pending record under a fresh handle replaces it
\* and the checkpoint fetch starts; the fetch, once it has answered, registers
\* the region and dispatches exactly one scan command with that handle.
RefreshMergesOrRebootstraps ==
    /\ [][ TookRefresh =>
             LET region == RegionOf(Head(mailbox))
                 old == subs[region.id]
             IN  /\ RefreshFrame
                 /\ \A r \in Regions \ {region.id} : subs'[r] = subs[r]
                 /\ CanUpdate(subs, region) =>
                       /\ subs'[region.id] = [old EXCEPT !.epoch = region.epoch]
                       /\ nextHandle' = nextHandle /\ loop_pc' = "recv"
                 /\ (~CanUpdate(subs, region) /\ Exists(subs, region)) =>
                       \/ subs'[region.id] = NoRec /\ loop_pc' = "recv"
                       \/ /\ subs'[region.id] =
                                [state |-> "Pending", epoch |-> region.epoch,
                                 handle |-> nextHandle, cp |-> 0]
                          /\ \A r \in Regions : subs[r].handle < nextHandle
                          /\ loop_pc' = "fetch" /\ curHandle' = nextHandle ]_vars
    /\ [][ (loop_pc = "fetch" /\ cur.type = "RefreshResolver" /\ loop_pc' = "recv") =>
             \E ts \in Timestamps :
                /\ scanq' = Append(scanq, ScanCmd(RegionOf(cur), curHandle, ts))
                /\ subs'[cur.id] = [state |-> "Pending", epoch |-> cur.epoch,
                                     handle |-> curHandle, cp |-> ts] ]_vars

\* a RefreshResolver at an older version than the tracked one replaced the
\* record, and the scan command of the older region was dispatched
C32_NewerRecordReplaced ==
    /\ Handled("RefreshResolver")
    /\ cur.epoch = <<1, 1>> /\ before # NoRec /\ before.epoch = <<1, 2>>
    /\ subs[1].epoch = <<1, 1>> /\ subs[1].handle # before.handle
    /\ subs[1].cp = 1
    /\ \E i \in 1..Len(scanq) : scanq[i].handle = subs[1].handle

\* this step took a Start and its handler ended in the step: no task covers
\* the region, try_start_observe returned Ok without fetching
StartAbandoned ==
    /\ Took /\ Head(mailbox).type = "Start"
    /\ loop_pc' = "recv"

\* nothing was dispatched, acquired, scheduled or reported in this step
NothingDispatched ==
    /\ scanq' = scanq /\ tasks' = tasks
    /\ scans' = scans
    /\ timers' = timers
    /\ fatal' = fatal
    /\ \A i \in 1..Len(mailbox') : mailbox'[i] = mailbox[i + 1]

\* C33: a Start can always find that no task covers its region, and then its
\* handler ends at once: no scan command is queued, no token is taken, no
\* retry is scheduled, nothing is sent to the mailbox and no fatal error is
\* reported.
C33_StartWithoutTaskIsAbandoned ==
    /\ []( (CanRecv /\ Head(mailbox).type = "Start") => ENABLED (OnStart /\ StartAbandoned) )
    /\ [][ StartAbandoned => NothingDispatched ]_vars

\* C33 witness: the Start of region 1 was abandoned: nothing is queued,
\* executing, scheduled or reported for it
C33_Witness ==
    /\ Handled("Start") /\ cur.id = 1
    /\ before = NoRec /\ nextHandle = 2
    /\ subs[1].state = "Pending" /\ subs[1].cp = 0
    /\ scanq = <<>> /\ tasks = {} /\ scans = 0
    /\ timers = {} /\ mailbox = <<>> /\ fatal = <<>>
    /\ failBudget = MaxFail

\* the scan command this step submitted
Submitted == scanq'[Len(scanq')]

\* the scan commands of region r that have not ended
LiveCmdsOf(r) ==
    {scanq[i] : i \in {j \in 1..Len(scanq) : scanq[j].id = r}}
    \cup {t.cmd : t \in {u \in tasks : u.cmd.id = r}}

AttemptBegins(u) == u \in tasks' \ tasks /\ u.pc = "exec"

\* C35: the pool orders nothing between commands: whatever the other commands
\* are doing, the oldest queued command can be given its task, and a task that
\* is about to scan can scan; and the attempts of one command follow one
\* another: a command has one task, its first attempt begins when it leaves
\* the queue, every later attempt begins from the end of the backoff sleep
\* that followed the failure of the attempt before, and a sleep begins only
\* with a failed attempt.
C35_ConcurrentCommandsSequentialAttempts ==
    /\ []( /\ (pool.open /\ scanq # <<>>) => ENABLED ScanRecv
           /\ \A t \in tasks : t.pc = "exec" => ENABLED ScanExec(t, "ok")
           /\ \A t \in tasks : t.pc = "sleep" => ENABLED ScanWake(t)
           /\ \A t, u \in tasks : t.cmd = u.cmd => t = u )
    /\ [][ \A u \in tasks' \ tasks :
             /\ (AttemptBegins(u) /\ u.retry_time = TRY_START_OBSERVE_MAX_RETRY_TIME) =>
                   (scanq # <<>> /\ u.cmd = Head(scanq) /\ scanq' = Tail(scanq))
             /\ (AttemptBegins(u) /\ u.retry_time < TRY_START_OBSERVE_MAX_RETRY_TIME) =>
                   [cmd |-> u.cmd, retry_time |-> u.retry_time + 1, pc |-> "sleep"]
                      \in tasks \ tasks'
             /\ u.pc = "sleep" =>
                   /\ [u EXCEPT !.pc = "exec"] \in tasks \ tasks'
                   /\ failBudget' < failBudget ]_vars

\* C35 witness: the command of region 1, submitted first, sleeps after a
\* failed attempt while the command of region 2, submitted later, is scanning
C35_Witness ==
    \E t, u \in tasks :
       /\ t.cmd.id = 1 /\ t.pc = "sleep"
       /\ u.cmd.id = 2 /\ u.pc = "exec"
       /\ t.cmd.handle < u.cmd.handle

\* the dispatch attempts a chain may make: the Start and one per failure
\* count up to the maximum
MaxAttempts == TRY_START_OBSERVE_MAX_RETRY_TIME + 1

\* the retry notifications waiting in a timer or in the mailbox
PendingNotifications ==
    timers \cup {mailbox[i] : i \in {j \in 1..Len(mailbox) :
                                      mailbox[j].type = "NotifyFailToStartObserve"}}

\* C36: every retry chain is finite. The failure count of a chain is its
\* variant: the attempt in progress of a Start or of a retry has failed for at
\* most 24 times, so it is at most the 25th attempt of its chain; its failure
\* schedules exactly one notification, with the count one higher, at most 25;
\* the notification with count 25 starts no attempt and schedules nothing: it
\* ends the chain with one fatal error. A scan command has 24 retries left
\* at its first attempt; a failed attempt that is retried leads to one attempt
\* with one retry less, and an attempt with no retry left ends the command, so
\* that a command makes at most 25 attempts; a command ends without a fatal
\* error unless it fails with no retry left, and then with exactly one.
C36_RetryChainsAreFinite ==
    /\ []( /\ \A n \in PendingNotifications : n.ff \in 1..MaxAttempts
           /\ loop_pc = "fetch" => cur.ff + 1 \in 1..MaxAttempts
           /\ \A t \in tasks :
                 /\ t.retry_time \in 0..TRY_START_OBSERVE_MAX_RETRY_TIME
                 /\ MaxAttempts - t.retry_time \in 1..MaxAttempts
                 /\ t.pc = "sleep" => t.retry_time > 0 )
    /\ [][ FetchFailed =>
             /\ Cardinality(PendingNotifications') = Cardinality(PendingNotifications) + 1
             /\ \A n \in PendingNotifications' \ PendingNotifications : n.ff = cur.ff + 1 ]_vars
    /\ [][ (TookRetry /\ Head(mailbox).ff = MaxAttempts) =>
             /\ ~Rerun /\ loop_pc' = "recv"
             /\ PendingNotifications' = PendingNotifications \ {Head(mailbox)}
             /\ SentFatal ]_vars
    /\ [][ \A t \in tasks :
             /\ (t.pc = "sleep" /\ t \notin tasks') =>
                   [t EXCEPT !.pc = "exec", !.retry_time = t.retry_time - 1] \in tasks'
             /\ (ScanAttempted(t) /\ t.retry_time = 0) => ScanEnded(t)
             /\ ScanEnded(t) =>
                   IF t.retry_time = 0 /\ failBudget' < failBudget
                   THEN SentFatal
                   ELSE fatal' = fatal ]_vars

\* C36 witness: the chain of the Start of region 1 made its 25 attempts, each
\* of which failed its fetch, and ended with the fatal error of the
\* notification with count 25
C36_Witness ==
    /\ Handled("NotifyFailToStartObserve") /\ cur.ff = MaxAttempts
    /\ nextHandle = MaxAttempts + 1
    /\ PendingNotifications = {} /\ tasks = {} /\ scanq = <<>>
    /\ Len(fatal) = 1 /\ fatal[1].from = "retry"
    /\ failBudget = ScanFailSlack - 1

\* what wait(timeout) answers when it is called on the manager handle that
\* start() returned: the handle waits on its own wait group
HandleWaitTimedOut == WaitTimedOut(handleScans)

\* C37: wait(timeout) called on the handle returned by start() reports a
\* timeout exactly when a scan command dispatched by the loop has not ended.
C37_HandleSharesBarrier == HandleWaitTimedOut <=> (LiveScanCmds > 0)

\* scans dispatched by the loop are outstanding: the wait of the loop would
\* time out, and the wait on the returned handle reports that all are done
C37_HandleSeesNoScan ==
    /\ LiveScanCmds > 0 /\ scans = LiveScanCmds
    /\ WaitTimedOut(scans)
    /\ ~HandleWaitTimedOut

\* C38: a step that takes a RefreshResolver of a region with no tracked
\* record leaves the tracker as it is, ends the handler, and dispatches,
\* acquires, schedules, sends and reports nothing.
C38_RefreshOfUntrackedIsNoOp ==
    [][ (TookRefresh /\ subs[Head(mailbox).id] = NoRec) =>
          /\ subs' = subs
          /\ loop_pc' = "recv" /\ curHandle' = curHandle
          /\ NothingDispatched ]_vars

\* C38 witness: the RefreshResolver of region 1, never started, was handled
\* and nothing is tracked, queued or scheduled
C38_Witness ==
    /\ Handled("RefreshResolver") /\ cur.id = 1
    /\ before = NoRec
    /\ subs = [r \in Regions |-> NoRec]
    /\ scanq = <<>> /\ tasks = {} /\ scans = 0 /\ timers = {}

ChainSlept ==
    /\ call.fn \in {"exec_by_with_retry", "start_observe_with_failure_count"}
    /\ ~call.done /\ ~call'.done

\* the failure count the chain passed to backoff_for_start_observe in this step
ChainFailedFor ==
    IF call.fn = "exec_by_with_retry"
    THEN TRY_START_OBSERVE_MAX_RETRY_TIME - call.n
    ELSE call.n

\* C40: along both retry chains no operation leaves the range of its type:
\* the counters stay within u8 and the shift amount below 32; the scan
\* executor passes the failure counts 0..23 to the backoff function and the
\* operator loop 0..24, and the delay slept is min(2^n, 16) seconds.
C40_NoOverflowInRetryArithmetic ==
    /\ []( call.fn \in {"exec_by_with_retry", "start_observe_with_failure_count"} =>
             /\ ~call.ovf
             /\ call.n \in 0..255 )
    /\ [][ ChainSlept =>
             /\ ChainFailedFor \in 0..(IF call.fn = "exec_by_with_retry"
                                       THEN TRY_START_OBSERVE_MAX_RETRY_TIME - 1
                                       ELSE TRY_START_OBSERVE_MAX_RETRY_TIME)
             /\ ChainFailedFor < 32
             /\ call'.delay - call.delay =
                   Min2(Pow2(ChainFailedFor), RETRY_AWAIT_MAX_DURATION)
             /\ call'.n = IF call.fn = "exec_by_with_retry" THEN call.n - 1 ELSE call.n + 1
           ]_vars

\* C40 witness: the chain of a Start slept the delay of the failure count 24,
\* the largest the program passes, and its counter is 25
C40_Witness ==
    /\ call.fn = "start_observe_with_failure_count" /\ ~call.ovf
    /\ call.n = TRY_START_OBSERVE_MAX_RETRY_TIME + 1
    /\ call.delay = 351 /\ ~call.done

====
